---- MODULE Spec2Model ----
(***************************************************************************)
(* Model of the LLM backend layer of question_tool:                        *)
(*   core/llm_backend.rs    LLMManager (backend list + current index)      *)
(*   core/gpt_backend.rs    GPTBackend::send_message / test_availability   *)
(*   core/github_backend.rs GitHubBackend::send_message / test_availability*)
(* Every await of a backend call is one step of the model; the network     *)
(* (async_llm) answers each attempt nondeterministically.                   *)
(*                                                                         *)
(* Encoding.  Option<T>: None is <<>>, Some(x) is <<x>>.  A String is a    *)
(* sequence of pieces, so push_str and format! are concatenations.         *)
(* Vec indices are the 0-based indices of the source; backends[i + 1] is   *)
(* the source's backends[i].                                               *)
(***************************************************************************)
EXTENDS Integers, Sequences, FiniteSets, TLC

\* ---------------------------------------------------------------- bounds
\* Stream items the network delivers in one streaming attempt.
MaxItems == 2
\* Backends one LLMManager is grown to by add_backend.
MaxBackends == 2
MaxImages == 2

\* ------------------------------------------------------------- value sets
None == <<>>
Some(x) == <<x>>
IsSome(o) == o # <<>>
Unwrap(o) == o[1]
Opt(S) == {None} \cup {Some(x) : x \in S}

\* async tasks that may run a backend call at the same time
Tasks == {"t1", "t2"}

Keys == {"k1"}
Tokens == {"tok1"}
Urls == {"u1"}
Models == {"gpt-4o"}
Providers == {"GPT", "GitHub", "Other"}
\* descriptions of transport failures reported by the HTTP client
NetErrors == {"timeout", "refused"}

DefaultGptBaseUrl == "https://api.tu-zi.com/v1"

\* ------------------------------------------------------------------ state
VARIABLES
    env,        \* process environment: GITHUB_TOKEN, OPENAI_API_KEY, OPENAI_BASE_URL
    config,     \* Option<LLMConfig>: the config the manager was built from
    manager,    \* LLMManager: [backends, current_backend]
    ret,        \* return value of the last synchronous LLMManager call
    tasks,      \* per task: the backend call it is running
    app,        \* the application: UI properties, event loop, settings mutex
    clip        \* clipboard monitor thread, clipboard timer, image paths and files

vars == <<env, config, manager, ret, tasks, app, clip>>

\* ------------------------------------------------------------- async_llm::Error
\* Error::Stream(msg), and a transport error with description d
StreamError(msg) == [kind |-> "Stream", msg |-> <<msg>>]
NetError(d) == [kind |-> "Net", msg |-> <<d>>]
\* Display of an error: the text of its message
to_string(e) == e.msg

\* string s contains string sub
Contains(s, sub) ==
    \E i \in 0..(Len(s) - Len(sub)) : \A j \in 1..Len(sub) : s[i + j] = sub[j]

MsgNoToken == "GitHub token not available. Please set GITHUB_TOKEN environment variable."
MsgNoContentGpt == "No response content from GPT"
MsgNoContentGitHub == "No response content from GitHub Models"
MsgNoBackend == "No backend available"

Unit == <<>>
\* Result<T, Error>; a String or () value is a sequence
Ok(v) == [ok |-> TRUE, val |-> v, err |-> [kind |-> "none", msg |-> <<>>]]
Err(e) == [ok |-> FALSE, val |-> Unit, err |-> e]

\* LLMResponse
LLMResponse(content, is_complete) == [content |-> content, is_complete |-> is_complete]

\* ------------------------------------------------------------- LLMConfig
LLMConfig ==
    [provider : Providers, model : Models, api_key : Opt(Keys),
     base_url : Opt(Urls \cup {""}), github_token : Opt(Tokens),
     enable_streaming : BOOLEAN]

\* --------------------------------------------------------------- backends
\* GPTBackend::default()
GPTBackend_default ==
    [provider |-> "GPT", model |-> "gpt-4o", api_key |-> None,
     base_url |-> Some(DefaultGptBaseUrl)]

\* GitHubBackend::new(model): the token is read from the environment
GitHubBackend_new(model, e) ==
    [provider |-> "GitHub", model |-> model, api_key |-> e.GITHUB_TOKEN,
     base_url |-> Some("https://models.inference.ai.azure.com")]

with_api_key(b, k) == [b EXCEPT !.api_key = Some(k)]
with_base_url(b, u) == [b EXCEPT !.base_url = Some(u)]

\* ------------------------------------------------------------- LLMManager
LLMManager_new == [backends |-> <<>>, current_backend |-> None]

\* faulty add_backend: the first backend is not selected
add_backend_no_select(m, b) ==
    [backends |-> Append(m.backends, b), current_backend |-> m.current_backend]

\* add_backend: push, and select the backend if none is selected
add_backend(m, b) ==
    [backends |-> Append(m.backends, b),
     current_backend |-> IF m.current_backend = None
                         THEN Some(Len(m.backends))
                         ELSE m.current_backend]

\* faulty set_current_backend: the bound check admits index = len
set_current_backend_off_by_one(m, index) ==
    IF index <= Len(m.backends)
    THEN [m |-> [m EXCEPT !.current_backend = Some(index)],
          r |-> [ok |-> TRUE, msg |-> <<>>]]
    ELSE [m |-> m,
          r |-> [ok |-> FALSE, msg |-> <<"Backend index ", index, " out of range">>]]

\* set_current_backend: the manager after the call and the returned Result
set_current_backend(m, index) ==
    IF index < Len(m.backends)
    THEN [m |-> [m EXCEPT !.current_backend = Some(index)],
          r |-> [ok |-> TRUE, msg |-> <<>>]]
    ELSE [m |-> m,
          r |-> [ok |-> FALSE, msg |-> <<"Backend index ", index, " out of range">>]]

\* faulty current_backend: a manager without selection answers with the
\* default GPT backend
current_backend_or_default(m) ==
    IF IsSome(m.current_backend) /\ Unwrap(m.current_backend) < Len(m.backends)
    THEN Some(m.backends[Unwrap(m.current_backend) + 1])
    ELSE Some(GPTBackend_default)

\* current_backend(): Option<&dyn LLMBackend>
current_backend(m) ==
    IF IsSome(m.current_backend) /\ Unwrap(m.current_backend) < Len(m.backends)
    THEN Some(m.backends[Unwrap(m.current_backend) + 1])
    ELSE None

\* faulty from_config: an unrecognized provider selects the last backend added
from_config_default_last(c, e) ==
    LET gpt0 == GPTBackend_default
        gpt1 == IF IsSome(c.api_key) THEN with_api_key(gpt0, Unwrap(c.api_key)) ELSE gpt0
        gpt2 == IF IsSome(c.base_url) /\ Unwrap(c.base_url) # ""
                THEN with_base_url(gpt1, Unwrap(c.base_url)) ELSE gpt1
        gpt3 == [gpt2 EXCEPT !.model = c.model]
        m1 == add_backend(LLMManager_new, gpt3)
        gh0 == GitHubBackend_new(c.model, e)
        gh1 == IF IsSome(c.github_token) THEN with_api_key(gh0, Unwrap(c.github_token)) ELSE gh0
        m2 == add_backend(m1, gh1)
    IN  IF c.provider = "GPT" THEN set_current_backend(m2, 0).m
        ELSE set_current_backend(m2, Len(m2.backends) - 1).m

\* from_config: both backends are registered, then the provider is selected
from_config(c, e) ==
    LET gpt0 == GPTBackend_default
        gpt1 == IF IsSome(c.api_key) THEN with_api_key(gpt0, Unwrap(c.api_key)) ELSE gpt0
        gpt2 == IF IsSome(c.base_url) /\ Unwrap(c.base_url) # ""
                THEN with_base_url(gpt1, Unwrap(c.base_url)) ELSE gpt1
        gpt3 == [gpt2 EXCEPT !.model = c.model]
        m1 == add_backend(LLMManager_new, gpt3)
        gpt_index == Len(LLMManager_new.backends)
        gh0 == GitHubBackend_new(c.model, e)
        gh1 == IF IsSome(c.github_token) THEN with_api_key(gh0, Unwrap(c.github_token)) ELSE gh0
        m2 == add_backend(m1, gh1)
        github_index == Len(m1.backends)
    IN  IF c.provider = "GPT" THEN set_current_backend(m2, gpt_index).m
        ELSE IF c.provider = "GitHub" THEN set_current_backend(m2, github_index).m
        ELSE set_current_backend(m2, gpt_index).m

\* ------------------------------------------------------------ environment
Envs ==
    [GITHUB_TOKEN : Opt(Tokens), OPENAI_API_KEY : Opt(Keys),
     OPENAI_BASE_URL : Opt(Urls \cup {DefaultGptBaseUrl})]

\* GPTBackend::setup_environment
gpt_setup_environment(b, e) ==
    LET e1 == IF IsSome(b.api_key) THEN [e EXCEPT !.OPENAI_API_KEY = b.api_key] ELSE e
    IN  IF IsSome(b.base_url) THEN [e1 EXCEPT !.OPENAI_BASE_URL = b.base_url] ELSE e1

\* GitHubBackend::setup_environment
github_setup_environment(b, e) ==
    IF IsSome(b.api_key) THEN [e EXCEPT !.GITHUB_TOKEN = b.api_key] ELSE e

\* ----------------------------------------------------------------- chunks
\* the texts of the final chunks that report a failure
ChunkNoToken == <<"Error: ", MsgNoToken>>
ChunkDuringStreaming(e) == <<"Error during streaming: ">> \o to_string(e)
ChunkNoContentStreaming == <<"Error: ", MsgNoContentGpt, " streaming">>
ChunkNoContentNonStreaming == <<"Error: ", MsgNoContentGpt, " non-streaming">>
ChunkBothFailed(e2) ==
    <<"Error: Both streaming and non-streaming requests failed. Last error: ">>
        \o to_string(e2)

\* ------------------------------------------------------------------ tasks
\* a task that runs no call
IdleTask ==
    [pc |-> "idle", op |-> "none", backend |-> None, cfg |-> None,
     acc |-> <<>>, items |-> 0, chunks |-> <<>>, attempts |-> <<>>,
     stream_err |-> None, response |-> None, non_stream_err |-> None,
     result |-> None, rx_alive |-> TRUE, received |-> <<>>, deltas |-> <<>>]

\* one network attempt: its kind and the environment the HTTP client sees
Attempt(kind, e) == [kind |-> kind, env |-> e]

\* faulty send: the Result of send() is unwrapped, which panics once the
\* receiver is gone
SendChunk_unwrap(tk, content, is_complete) ==
    IF tk.rx_alive
    THEN [tk EXCEPT !.chunks = Append(@, LLMResponse(content, is_complete)),
                    !.received = Append(@, LLMResponse(content, is_complete))]
    ELSE [tk EXCEPT !.pc = "panicked"]

\* let _ = response_sender.send(LLMResponse {..}) of task record tk: chunks
\* are the sends made, received the messages queued for the receiver; send
\* returns Err when the receiver was dropped and the Result is discarded
SendChunk(tk, content, is_complete) ==
    [tk EXCEPT !.chunks = Append(@, LLMResponse(content, is_complete)),
               !.received = IF tk.rx_alive
                            THEN Append(@, LLMResponse(content, is_complete))
                            ELSE @]

\* the call returns r (nothing runs after a panic)
Finish(tk, r) ==
    IF tk.pc = "panicked" THEN tk ELSE [tk EXCEPT !.pc = "done", !.result = Some(r)]

\* the streaming request is issued: setup_environment, then send_stream().await
IssueStream(tk, e) ==
    [tk EXCEPT !.pc = "stream_open",
               !.attempts = Append(@, Attempt("stream", e))]

\* the non-streaming request is issued after streaming error e1
IssueNonStream(tk, e1, e) ==
    [tk EXCEPT !.pc = "non_stream", !.stream_err = Some(e1),
               !.attempts = Append(@, Attempt("non_stream", e))]

\* the application before any callback has run
AppIdle ==
    [lock |-> "free", ui_wait |-> None, queue |-> <<>>,
     model_reply |-> <<>>, is_streaming |-> FALSE,
     llm_is_testing |-> FALSE, llm_test_result |-> <<>>,
     req |-> [t \in Tasks |-> "none"], dispatch_cfg |-> [t \in Tasks |-> None], test |-> "none",
     config_file |-> None, stop_signal |-> FALSE,
     latest |-> None, latest_reply |-> None]

\* the image files the clipboard monitor can write: slint_paste_{timestamp}.png
\* of the n-th save, n in 1..MaxImages; an image on the system clipboard is
\* its hash, 1 or 2, and 0 is a clipboard without an image
Paths == 1..MaxImages

\* the clipboard monitor and the clipboard timer before their first run
ClipIdle ==
    [clipboard |-> 0, last_clipboard_hash |-> 0, last_saved_file |-> None,
     saves |-> 0, file_path |-> None, monitor |-> "sleep",
     files |-> [p \in Paths |-> "missing"],
     clipboard_path |-> None, path_lock |-> "free",
     current_image_path |-> None, timer |-> "idle"]

\* the UI thread is in no callback: not parked at the settings mutex and
\* not inside the clipboard timer
UiThreadFree == app.ui_wait = None /\ clip.timer = "idle"

Init ==
    /\ env \in Envs
    /\ config = None
    /\ manager = LLMManager_new
    /\ ret = None
    /\ tasks = [t \in Tasks |-> IdleTask]
    /\ app = AppIdle
    /\ clip = ClipIdle

\* no call borrows the manager (a pending future holds a shared borrow of
\* it, so no &mut method and no replacement of the manager can run)
NoCallInFlight == \A t \in Tasks : tasks[t].pc = "idle"

\* ------------------------------------------------------- manager actions
ManagerNew ==
    /\ NoCallInFlight
    /\ manager' = LLMManager_new
    /\ config' = None
    /\ UNCHANGED <<env, ret, tasks, app, clip>>

\* the backends the callers of add_backend construct
NewBackends(e) ==
    {GPTBackend_default, GitHubBackend_new("gpt-4o", e)}
    \cup {with_api_key(GPTBackend_default, k) : k \in Keys}
    \cup {with_api_key(GitHubBackend_new("gpt-4o", e), k) : k \in Tokens}

AddBackend(b) ==
    /\ NoCallInFlight
    /\ Len(manager.backends) < MaxBackends
    /\ manager' = add_backend(manager, b)
    /\ ret' = Some([ok |-> TRUE, msg |-> <<Len(manager.backends)>>])
    /\ UNCHANGED <<env, config, tasks, app, clip>>

SetCurrentBackend(index) ==
    /\ NoCallInFlight
    /\ manager' = set_current_backend(manager, index).m
    /\ ret' = Some(set_current_backend(manager, index).r)
    /\ UNCHANGED <<env, config, tasks, app, clip>>

FromConfig(c) ==
    /\ NoCallInFlight
    /\ manager' = from_config(c, env)
    /\ config' = Some(c)
    /\ UNCHANGED <<env, ret, tasks, app, clip>>

\* --------------------------------------------------- send_message: start
\* faulty start: with enable_streaming off the non-streaming request is
\* made at once
gpt_send_start_by_flag(tk, b, e) ==
    IF Unwrap(tk.cfg).enable_streaming
    THEN [tk |-> IssueStream(tk, gpt_setup_environment(b, e)),
          env |-> gpt_setup_environment(b, e)]
    ELSE [tk |-> [tk EXCEPT !.pc = "non_stream",
                            !.attempts = Append(@, Attempt("non_stream",
                                                           gpt_setup_environment(b, e)))],
          env |-> gpt_setup_environment(b, e)]

\* GPTBackend::send_message up to send_stream().await
gpt_send_start(tk, b, e) ==
    [tk |-> IssueStream(tk, gpt_setup_environment(b, e)),
     env |-> gpt_setup_environment(b, e)]

\* GitHubBackend::send_message up to send_stream().await, or the early return
github_send_start(tk, b, e) ==
    IF b.api_key = None
    THEN [tk |-> Finish(SendChunk(tk, ChunkNoToken, TRUE), Err(StreamError(MsgNoToken))),
          env |-> e]
    ELSE [tk |-> IssueStream(tk, github_setup_environment(b, e)),
          env |-> github_setup_environment(b, e)]

backend_send_start(tk, b, e) ==
    IF b.provider = "GPT" THEN gpt_send_start(tk, b, e) ELSE github_send_start(tk, b, e)

\* LLMManager::send_message on manager m, up to the first await
send_message(tk0, m, e) ==
    LET tk == [tk0 EXCEPT !.backend = current_backend(m)]
    IN  IF current_backend(m) = None
        THEN [tk |-> Finish(tk, Err(StreamError(MsgNoBackend))), env |-> e]
        ELSE backend_send_start(tk, Unwrap(current_backend(m)), e)

\* LLMManager::send_message called by task t
SendMessage(t) ==
    /\ tasks[t].pc = "idle"
    /\ LET s == send_message([IdleTask EXCEPT !.op = "send", !.cfg = config,
                                              !.rx_alive = tasks[t].rx_alive],
                             manager, env)
       IN  /\ tasks' = [tasks EXCEPT ![t] = s.tk]
           /\ env' = s.env
    /\ UNCHANGED <<config, manager, ret, app, clip>>

\* -------------------------------------------- test_availability: start
gpt_test_start(tk, b, e) ==
    [tk |-> IssueStream(tk, gpt_setup_environment(b, e)),
     env |-> gpt_setup_environment(b, e)]

github_test_start(tk, b, e) ==
    IF b.api_key = None
    THEN [tk |-> Finish(tk, Err(StreamError(MsgNoToken))), env |-> e]
    ELSE [tk |-> IssueStream(tk, github_setup_environment(b, e)),
          env |-> github_setup_environment(b, e)]

backend_test_start(tk, b, e) ==
    IF b.provider = "GPT" THEN gpt_test_start(tk, b, e) ELSE github_test_start(tk, b, e)

\* LLMManager::test_current_backend on manager m, up to the first await
test_current_backend(tk0, m, e) ==
    LET tk == [tk0 EXCEPT !.backend = current_backend(m)]
    IN  IF current_backend(m) = None
        THEN [tk |-> Finish(tk, Err(StreamError(MsgNoBackend))), env |-> e]
        ELSE backend_test_start(tk, Unwrap(current_backend(m)), e)

\* LLMManager::test_current_backend called by task t
TestCurrentBackend(t) ==
    /\ tasks[t].pc = "idle"
    /\ LET s == test_current_backend([IdleTask EXCEPT !.op = "test", !.cfg = config],
                                     manager, env)
       IN  /\ tasks' = [tasks EXCEPT ![t] = s.tk]
           /\ env' = s.env
    /\ UNCHANGED <<config, manager, ret, app, clip>>

\* ------------------------------------------- the streaming request answers
\* send_stream() returned Ok: the loop over the stream starts
StreamOpenOk(t) ==
    /\ tasks[t].pc = "stream_open"
    /\ tasks' = [tasks EXCEPT ![t].pc = "streaming"]
    /\ UNCHANGED <<env, config, manager, ret, app, clip>>

\* what follows a streaming attempt that could not be opened (error e1):
\* the non-streaming request; only GitHubBackend::send_message goes through
\* try_non_streaming_request, which sets the environment again
fallback(tk, e1, e) ==
    IF tk.op = "send" /\ Unwrap(tk.backend).provider = "GitHub"
    THEN [tk |-> IssueNonStream(tk, e1, github_setup_environment(Unwrap(tk.backend), e)),
          env |-> github_setup_environment(Unwrap(tk.backend), e)]
    ELSE [tk |-> IssueNonStream(tk, e1, e), env |-> e]

\* send_stream() returned Err(e)
StreamOpenErr(t, d) ==
    /\ tasks[t].pc = "stream_open"
    /\ tasks' = [tasks EXCEPT ![t] = fallback(tasks[t], NetError(d), env).tk]
    /\ env' = fallback(tasks[t], NetError(d), env).env
    /\ UNCHANGED <<config, manager, ret, app, clip>>

\* faulty handling of a content item: the chunk carries the delta alone
on_content_delta_only(tk, d) ==
    LET tk1 == [tk EXCEPT !.acc = @ \o d, !.items = @ + 1, !.deltas = Append(@, d)]
    IN  IF tk.op = "send" THEN SendChunk(tk1, d, FALSE) ELSE tk1

\* faulty item handling: the chunk is built before push_str
on_content_before_push(tk, d) ==
    LET tk1 == [tk EXCEPT !.acc = @ \o d, !.items = @ + 1, !.deltas = Append(@, d)]
    IN  IF tk.op = "send" THEN SendChunk(tk1, tk.acc, FALSE) ELSE tk1

\* a stream item with delta content d: push_str, and send_message sends the
\* accumulated content as a non-final chunk (deltas: the deltas received)
on_content(tk, d) ==
    LET tk1 == [tk EXCEPT !.acc = @ \o d, !.items = @ + 1, !.deltas = Append(@, d)]
    IN  IF tk.op = "send" THEN SendChunk(tk1, tk1.acc, FALSE) ELSE tk1

StreamItemContent(t, d) ==
    /\ tasks[t].pc = "streaming"
    /\ tasks[t].items < MaxItems
    /\ tasks' = [tasks EXCEPT ![t] = on_content(tasks[t], d)]
    /\ UNCHANGED <<env, config, manager, ret, app, clip>>

\* a stream item without choices, delta or content
StreamItemNoContent(t) ==
    /\ tasks[t].pc = "streaming"
    /\ tasks[t].items < MaxItems
    /\ tasks' = [tasks EXCEPT ![t].items = @ + 1]
    /\ UNCHANGED <<env, config, manager, ret, app, clip>>

\* faulty GPT handling of an Err item: the error chunk is sent and the call
\* goes on to the fallback, which sends a final chunk of its own
gpt_send_stream_err_then_fallback(tk, e1, e) ==
    fallback(SendChunk(tk, ChunkDuringStreaming(e1), TRUE), e1, e)

\* an Err item in the stream
\* GPTBackend::send_message: final error chunk, return Err(e)
gpt_send_stream_err(tk, e1, e) ==
    [tk |-> Finish(SendChunk([tk EXCEPT !.stream_err = Some(e1)],
                             ChunkDuringStreaming(e1), TRUE), Err(e1)),
     env |-> e]

\* GitHubBackend::send_message: try_streaming_request returns Err(e), fallback
github_send_stream_err(tk, e1, e) == fallback(tk, e1, e)

\* test_availability of both backends: return Err(e)
test_stream_err(tk, e1, e) ==
    [tk |-> Finish([tk EXCEPT !.stream_err = Some(e1)], Err(e1)), env |-> e]

on_stream_err(tk, e1, e) ==
    IF tk.op = "test" THEN test_stream_err(tk, e1, e)
    ELSE IF Unwrap(tk.backend).provider = "GPT" THEN gpt_send_stream_err(tk, e1, e)
    ELSE github_send_stream_err(tk, e1, e)

StreamItemErr(t, d) ==
    /\ tasks[t].pc = "streaming"
    /\ tasks' = [tasks EXCEPT ![t] = on_stream_err(tasks[t], NetError(d), env).tk]
    /\ env' = on_stream_err(tasks[t], NetError(d), env).env
    /\ UNCHANGED <<config, manager, ret, app, clip>>

\* faulty GPT end of stream: a stream without content is retried as a
\* non-streaming request
gpt_send_stream_end_retry(tk) ==
    IF tk.acc # <<>>
    THEN Finish(SendChunk(tk, tk.acc, TRUE), Ok(Unit))
    ELSE [tk EXCEPT !.pc = "non_stream",
                    !.attempts = Append(@, Attempt("non_stream", tk.attempts[1].env))]

\* the stream ends (next() returns None)
gpt_send_stream_end(tk) ==
    IF tk.acc # <<>>
    THEN Finish(SendChunk(tk, tk.acc, TRUE), Ok(Unit))
    ELSE Finish(SendChunk(tk, ChunkNoContentStreaming, TRUE),
                Err(StreamError(MsgNoContentGpt)))

github_send_stream_end(tk) == Finish(SendChunk(tk, tk.acc, TRUE), Ok(Unit))

gpt_test_stream_end(tk) ==
    IF tk.acc # <<>> THEN Finish(tk, Ok(tk.acc))
    ELSE Finish(tk, Err(StreamError(MsgNoContentGpt)))

github_test_stream_end(tk) ==
    IF tk.acc # <<>> THEN Finish(tk, Ok(tk.acc))
    ELSE Finish(tk, Err(StreamError(MsgNoContentGitHub)))

on_stream_end(tk) ==
    IF Unwrap(tk.backend).provider = "GPT"
    THEN IF tk.op = "send" THEN gpt_send_stream_end(tk) ELSE gpt_test_stream_end(tk)
    ELSE IF tk.op = "send" THEN github_send_stream_end(tk) ELSE github_test_stream_end(tk)

StreamEnd(t) ==
    /\ tasks[t].pc = "streaming"
    /\ tasks' = [tasks EXCEPT ![t] = on_stream_end(tasks[t])]
    /\ UNCHANGED <<env, config, manager, ret, app, clip>>

\* faulty handling of a failed fallback: the chunk reports the streaming error
on_non_stream_err_chunk_first(tk, e2) ==
    IF tk.op = "send"
    THEN Finish(SendChunk(tk, ChunkBothFailed(Unwrap(tk.stream_err)), TRUE), Err(e2))
    ELSE Finish(tk, Err(e2))

\* faulty handling of a failed fallback: the streaming error is returned
on_non_stream_err_returns_first(tk, e2) ==
    IF tk.op = "send"
    THEN Finish(SendChunk(tk, ChunkBothFailed(e2), TRUE), Err(Unwrap(tk.stream_err)))
    ELSE Finish(tk, Err(Unwrap(tk.stream_err)))

\* --------------------------------------- the non-streaming request answers
\* send() returned Err(e2)
on_non_stream_err(tk, e2) ==
    IF tk.op = "send"
    THEN Finish(SendChunk(tk, ChunkBothFailed(e2), TRUE), Err(e2))
    ELSE Finish(tk, Err(e2))

NonStreamErr(t, d) ==
    /\ tasks[t].pc = "non_stream"
    /\ tasks' = [tasks EXCEPT ![t] =
            on_non_stream_err([tasks[t] EXCEPT !.non_stream_err = Some(NetError(d))],
                              NetError(d))]
    /\ UNCHANGED <<env, config, manager, ret, app, clip>>

\* choices.first().message.content, absent parts giving the empty string
unwrap_or_default(body) == IF IsSome(body) THEN Unwrap(body) ELSE <<>>

\* send() returned Ok(response); body is choices[0].message.content
gpt_send_non_stream_ok(tk, body) ==
    IF IsSome(body) /\ Unwrap(body) # <<>>
    THEN Finish(SendChunk(tk, Unwrap(body), TRUE), Ok(Unit))
    ELSE Finish(SendChunk(tk, ChunkNoContentNonStreaming, TRUE),
                Err(StreamError(MsgNoContentGpt)))

github_send_non_stream_ok(tk, body) ==
    Finish(SendChunk(tk, unwrap_or_default(body), TRUE), Ok(Unit))

gpt_test_non_stream_ok(tk, body) ==
    IF IsSome(body) /\ Unwrap(body) # <<>> THEN Finish(tk, Ok(Unwrap(body)))
    ELSE Finish(tk, Err(StreamError(MsgNoContentGpt)))

\* faulty test: whatever content the response has is returned as the reply
github_test_non_stream_ok_any(tk, body) ==
    Finish(tk, Ok(unwrap_or_default(body)))

github_test_non_stream_ok(tk, body) ==
    IF unwrap_or_default(body) # <<>> THEN Finish(tk, Ok(unwrap_or_default(body)))
    ELSE Finish(tk, Err(StreamError(MsgNoContentGitHub)))

on_non_stream_ok(tk, body) ==
    IF Unwrap(tk.backend).provider = "GPT"
    THEN IF tk.op = "send" THEN gpt_send_non_stream_ok(tk, body)
         ELSE gpt_test_non_stream_ok(tk, body)
    ELSE IF tk.op = "send" THEN github_send_non_stream_ok(tk, body)
         ELSE github_test_non_stream_ok(tk, body)

NonStreamOk(t, body) ==
    /\ tasks[t].pc = "non_stream"
    /\ tasks' = [tasks EXCEPT ![t] =
            on_non_stream_ok([tasks[t] EXCEPT !.response = Some(body)], body)]
    /\ UNCHANGED <<env, config, manager, ret, app, clip>>

\* the caller takes the result; the task can run another call
Return(t) ==
    /\ tasks[t].pc = "done"
    /\ tasks' = [tasks EXCEPT ![t] = IdleTask]
    /\ UNCHANGED <<env, config, manager, ret, app, clip>>

\* the caller drops the Receiver of the channel, before or during the call
DropReceiver(t) ==
    /\ tasks[t].rx_alive
    /\ tasks[t].op # "test"
    /\ tasks[t].pc # "done"
    /\ tasks' = [tasks EXCEPT ![t].rx_alive = FALSE]
    /\ UNCHANGED <<env, config, manager, ret, app, clip>>

\* ---------------------------------------------------------- build_messages

\* image_to_base64: open and decode the file, encode it as PNG, base64
image_to_base64(path) ==
    IF path = "missing.png" THEN Err([kind |-> "Io", msg |-> <<"open ", path>>])
    ELSE IF path = "corrupt.png" THEN Err([kind |-> "Image", msg |-> <<"decode ", path>>])
    ELSE Ok(<<"base64(png(", path, "))">>)

\* ChatMessage::system, ChatMessage::user, ChatMessage::user_image_with_text
ChatMessage_system(text) == [role |-> "system", text |-> text, image_url |-> None]
ChatMessage_user(text) == [role |-> "user", text |-> text, image_url |-> None]
ChatMessage_user_image_with_text(text, url) ==
    [role |-> "user", text |-> text, image_url |-> Some(url)]

GptSystemPrompt == <<"You are a helpful assistant for analyzing questions and images.">>
GitHubSystemPrompt == <<"you have to follow the follow rules">>
GitHubImageSystemPrompt ==
    <<"You are GitHub Copilot, a helpful AI assistant for analyzing questions and images.">>

\* faulty build: a failed conversion still attaches a data URL, without data
gpt_build_messages_empty_url(text, image_path) ==
    IF IsSome(image_path)
    THEN LET r == image_to_base64(Unwrap(image_path))
         IN  <<ChatMessage_system(<<>>),
               ChatMessage_user_image_with_text(
                   text, <<"data:image/png;base64,">> \o r.val)>>
    ELSE <<ChatMessage_system(<<>>), ChatMessage_user(text)>>

\* GPTBackend::build_messages
gpt_build_messages(text, image_path) ==
    IF IsSome(image_path)
    THEN LET r == image_to_base64(Unwrap(image_path))
         IN  IF r.ok
             THEN <<ChatMessage_system(<<>>),
                    ChatMessage_user_image_with_text(
                        text, <<"data:image/png;base64,">> \o r.val)>>
             ELSE <<ChatMessage_system(GptSystemPrompt), ChatMessage_user(text)>>
    ELSE <<ChatMessage_system(<<>>), ChatMessage_user(text)>>

\* GitHubBackend::build_messages
github_build_messages(text, image_path) ==
    IF IsSome(image_path)
    THEN LET r == image_to_base64(Unwrap(image_path))
         IN  IF r.ok
             THEN <<ChatMessage_system(GitHubImageSystemPrompt),
                    ChatMessage_user_image_with_text(
                        text, <<"data:image/png;base64,">> \o r.val)>>
             ELSE <<ChatMessage_system(GitHubSystemPrompt), ChatMessage_user(text)>>
    ELSE <<ChatMessage_system(GitHubSystemPrompt), ChatMessage_user(text)>>

build_messages(provider, text, image_path) ==
    IF provider = "GPT" THEN gpt_build_messages(text, image_path)
    ELSE github_build_messages(text, image_path)

\* a backend builds the messages of a request
BuildMessages(provider, text, image_path) ==
    /\ ret' = Some([op |-> "build_messages", provider |-> provider, text |-> text,
                    image_path |-> image_path,
                    messages |-> build_messages(provider, text, image_path)])
    /\ UNCHANGED <<env, config, manager, tasks, app, clip>>

\* ------------------------------------------------------------ QuestionType
\* the variants of QuestionType
QuestionTypes ==
    {"SingleChoice", "Reading", "ClozeTest", "ListeningSingle", "ListeningCompound",
     "MutiTiankong"}

\* QuestionType::as_str; a string literal is written as its code points
as_str(t) ==
    CASE t = "SingleChoice" -> "U+5355 U+9009 U+9898"
      [] t = "Reading" -> "U+9605 U+8BFB U+7406 U+89E3"
      [] t = "ClozeTest" -> "U+5B8C U+5F62 U+586B U+7A7A"
      [] t = "ListeningSingle" -> "U+5355 U+9879 U+542C U+529B U+7406 U+89E3"
      [] t = "ListeningCompound" -> "U+542C U+529B U+590D U+5408 U+9898"
      [] t = "MutiTiankong" -> "U+591A U+4E2A U+586B U+7A7A U+9898"

\* <QuestionType as FromStr>::from_str
from_str(input) ==
    CASE input = "U+5355 U+9009 U+9898" -> Ok("SingleChoice")
      [] input = "U+9605 U+8BFB U+7406 U+89E3" -> Ok("Reading")
      [] input = "U+5B8C U+578B U+586B U+7A7A" -> Ok("ClozeTest")
      [] input = "U+5355 U+9879 U+542C U+529B U+7406 U+89E3" -> Ok("ListeningSingle")
      [] input = "U+542C U+529B U+590D U+5408 U+9898" -> Ok("ListeningCompound")
      [] input = "U+591A U+4E2A U+586B U+7A7A U+9898" -> Ok("MutiTiankong")
      [] OTHER -> Err([kind |-> "unit", msg |-> <<>>])

\* QuestionType::from_str(input) is called
FromStr(input) ==
    /\ ret' = Some([op |-> "from_str", arg |-> input, result |-> from_str(input)])
    /\ UNCHANGED <<env, config, manager, tasks, app, clip>>

\* ------------------------------------------------------- the application
\* In the application config and manager are the two fields of the
\* LLMSettingsManager behind the llm_settings mutex; t1 is the tokio task of
\* handle_llm_request, t2 the thread of the connection test.
ReqTask == "t1"
TestTask == "t2"

\* LLMConfig::default()
LLMConfig_default(e) ==
    [provider |-> "GPT", model |-> "gpt-4o", api_key |-> None, base_url |-> None,
     github_token |-> e.GITHUB_TOKEN, enable_streaming |-> TRUE]

\* the values the settings page passes to the llm_*_changed callbacks
Settings ==
    [field : {"provider"}, value : {"GPT", "GitHub"}]
        \cup [field : {"github_token"}, value : {"", "tok1"}]

\* faulty setter: the model is reset to the default together with the provider
set_provider_resets_model(c, provider) ==
    [c EXCEPT !.provider = provider, !.model = "gpt-4o"]

\* LLMSettingsManager::set_provider, before update_manager
set_provider(c, provider) == [c EXCEPT !.provider = provider]

\* LLMSettingsManager::set_model, before update_manager
set_model(c, model) == [c EXCEPT !.model = model]

\* LLMSettingsManager::set_api_key, before update_manager
set_api_key(c, api_key) ==
    [c EXCEPT !.api_key = IF api_key = "" THEN None ELSE Some(api_key)]

\* LLMSettingsManager::set_base_url, before update_manager
set_base_url(c, base_url) ==
    [c EXCEPT !.base_url = IF base_url = "" THEN None ELSE Some(base_url)]

\* LLMSettingsManager::set_streaming
set_streaming(c, enable) == [c EXCEPT !.enable_streaming = enable]

\* LLMSettingsManager::set_github_token, before update_manager
set_github_token(c, token) ==
    [c EXCEPT !.github_token = IF token = "" THEN None ELSE Some(token)]

apply_setting(c, s) ==
    IF s.field = "provider" THEN set_provider(c, s.value)
    ELSE set_github_token(c, s.value)

\* the text the 2-argument send_message hands back on success: the content
\* of the final chunk of the call
response_content(tk) == tk.chunks[Len(tk.chunks)].content

\* the text handle_llm_request puts into model_reply
reply_text(tk) ==
    LET r == Unwrap(tk.result)
    IN  IF r.ok THEN response_content(tk) ELSE <<"Error: ">> \o to_string(r.err)

\* LLMSettingsManager::test_connection: the message made of the Result
test_connection_text(c, r) ==
    IF r.ok THEN <<"connected", c.provider, c.model>> \o r.val
    ELSE <<"failed">> \o to_string(r.err)

\* the llm_settings mutex is taken by the thread of the connection test
LockHeld == app.lock # "free"

\* the texts of the prefill field: empty, whitespace only, a question
PrefillTexts == {<<>>, <<" ">>, <<"q">>}

\* str::trim: the text without its leading and trailing whitespace
RECURSIVE trim(_)
trim(text) ==
    IF text = <<>> THEN <<>>
    ELSE IF Head(text) = " " THEN trim(Tail(text))
    ELSE IF text[Len(text)] = " " THEN trim(SubSeq(text, 1, Len(text) - 1))
    ELSE text

\* faulty callback: is_streaming and model_reply are set before the text is
\* looked at
on_send_message_sets_first(t, text) ==
    /\ UiThreadFree
    /\ IF trim(text) = <<>>
       THEN app' = [app EXCEPT !.stop_signal = FALSE,
                               !.is_streaming = TRUE, !.model_reply = <<>>]
       ELSE /\ app.req[t] = "none"
            /\ app' = [app EXCEPT !.stop_signal = FALSE,
                                  !.is_streaming = TRUE, !.model_reply = <<>>,
                                  !.req[t] = "spawned", !.dispatch_cfg[t] = config,
                                  !.latest = Some(t), !.latest_reply = None]
    /\ UNCHANGED <<env, config, manager, ret, tasks, clip>>

\* on_send_message with the prefill text: the UI thread resets the stop
\* signal; a blank text ends the callback there; otherwise it sets
\* is_streaming and clears model_reply, and handle_llm_request spawns the
\* task t of the request (a task not in use; the question type of the UI
\* is taken to parse). latest and latest_reply record the request
\* dispatched last and the reply delivered for it.
on_send_message(t, text) ==
    /\ UiThreadFree
    /\ IF trim(text) = <<>>
       THEN app' = [app EXCEPT !.stop_signal = FALSE]
       ELSE /\ app.req[t] = "none"
            /\ app' = [app EXCEPT !.stop_signal = FALSE,
                                  !.is_streaming = TRUE, !.model_reply = <<>>,
                                  !.req[t] = "spawned", !.dispatch_cfg[t] = config,
                                  !.latest = Some(t), !.latest_reply = None]
    /\ UNCHANGED <<env, config, manager, ret, tasks, clip>>

\* the spawned task starts: llm_settings.lock(), from_config(get_config()),
\* guard dropped, send_message up to its first await
handle_llm_request_start(t) ==
    /\ app.req[t] = "spawned"
    /\ ~LockHeld
    /\ tasks[t].pc = "idle"
    /\ LET m == from_config(Unwrap(config), env)
           s == send_message([IdleTask EXCEPT !.op = "send", !.cfg = config], m, env)
       IN  /\ tasks' = [tasks EXCEPT ![t] = s.tk]
           /\ env' = s.env
    /\ app' = [app EXCEPT !.req[t] = "running"]
    /\ UNCHANGED <<config, manager, ret, clip>>

\* faulty task end: only a successful call posts its closure
handle_llm_request_finish_ok_only(t) ==
    /\ app.req[t] = "running"
    /\ tasks[t].pc = "done"
    /\ app' = [app EXCEPT !.req[t] = "finished",
                          !.queue = IF Unwrap(tasks[t].result).ok
                                    THEN Append(@, [kind |-> "reply", task |-> t,
                                                    text |-> reply_text(tasks[t])])
                                    ELSE @]
    /\ UNCHANGED <<env, config, manager, ret, tasks, clip>>

\* the call has returned: one closure goes to the event loop, with the
\* content or with "Error: {e}"
handle_llm_request_finish(t) ==
    /\ app.req[t] = "running"
    /\ tasks[t].pc = "done"
    /\ app' = [app EXCEPT !.req[t] = "finished",
                          !.queue = Append(@, [kind |-> "reply", task |-> t,
                                               text |-> reply_text(tasks[t])])]
    /\ UNCHANGED <<env, config, manager, ret, tasks, clip>>

\* faulty stop: the request is dropped together with the streaming flag
on_stop_response_aborts ==
    /\ UiThreadFree
    /\ app' = [app EXCEPT !.stop_signal = TRUE, !.is_streaming = FALSE,
                          !.req[ReqTask] = "none", !.dispatch_cfg[ReqTask] = None]
    /\ tasks' = [tasks EXCEPT ![ReqTask] = IdleTask]
    /\ UNCHANGED <<env, config, manager, ret, clip>>

\* on_stop_response: the stop signal is stored and is_streaming cleared; the
\* spawned task never reads the signal
on_stop_response ==
    /\ UiThreadFree
    /\ app' = [app EXCEPT !.stop_signal = TRUE, !.is_streaming = FALSE]
    /\ UNCHANGED <<env, config, manager, ret, tasks, clip>>

\* on_llm_test_connection: llm_is_testing is set and the thread spawned
on_llm_test_connection ==
    /\ UiThreadFree
    /\ app.test = "none"
    /\ app' = [app EXCEPT !.llm_is_testing = TRUE, !.test = "spawned"]
    /\ UNCHANGED <<env, config, manager, ret, tasks, clip>>

\* the thread takes the mutex and runs test_connection() up to its first
\* await, the guard alive
test_thread_start ==
    /\ app.test = "spawned"
    /\ ~LockHeld
    /\ tasks[TestTask].pc = "idle"
    /\ LET s == test_current_backend([IdleTask EXCEPT !.op = "test", !.cfg = config],
                                     manager, env)
       IN  /\ tasks' = [tasks EXCEPT ![TestTask] = s.tk]
           /\ env' = s.env
    /\ app' = [app EXCEPT !.lock = "test", !.test = "holding"]
    /\ UNCHANGED <<config, manager, ret, clip>>

\* faulty end of the test: the guard of llm_settings is never dropped
test_thread_finish_keeps_guard ==
    /\ app.test = "holding"
    /\ tasks[TestTask].pc = "done"
    /\ app' = [app EXCEPT !.test = "finished",
                          !.queue = Append(@, [kind |-> "test_result", task |-> TestTask,
                                               text |-> test_connection_text(
                                                            Unwrap(config),
                                                            Unwrap(tasks[TestTask].result))])]
    /\ tasks' = [tasks EXCEPT ![TestTask] = IdleTask]
    /\ UNCHANGED <<env, config, manager, ret, clip>>

\* test_connection() has returned: the guard is dropped and the closure with
\* the message goes to the event loop
test_thread_finish ==
    /\ app.test = "holding"
    /\ tasks[TestTask].pc = "done"
    /\ app' = [app EXCEPT !.lock = "free", !.test = "finished",
                          !.queue = Append(@, [kind |-> "test_result", task |-> TestTask,
                                               text |-> test_connection_text(
                                                            Unwrap(config),
                                                            Unwrap(tasks[TestTask].result))])]
    /\ tasks' = [tasks EXCEPT ![TestTask] = IdleTask]
    /\ UNCHANGED <<env, config, manager, ret, clip>>

\* settings.lock() succeeded on the UI thread: the setter, update_manager
update_settings(s) ==
    /\ config' = Some(apply_setting(Unwrap(config), s))
    /\ manager' = from_config(apply_setting(Unwrap(config), s), env)

\* an llm_*_changed callback: the UI thread calls settings.lock(), which
\* parks it while another thread holds the mutex
on_llm_setting_changed(s) ==
    /\ UiThreadFree
    /\ IF LockHeld
       THEN /\ app' = [app EXCEPT !.ui_wait = Some(s)]
            /\ UNCHANGED <<config, manager, clip>>
       ELSE /\ update_settings(s)
            /\ app' = app
    /\ UNCHANGED <<env, ret, tasks, clip>>

\* the mutex is released and the parked UI thread gets it
ui_thread_resume ==
    /\ app.ui_wait # None
    /\ ~LockHeld
    /\ update_settings(Unwrap(app.ui_wait))
    /\ app' = [app EXCEPT !.ui_wait = None]
    /\ UNCHANGED <<env, ret, tasks, clip>>

\* the event loop runs the next closure posted by invoke_from_event_loop;
\* the task of a delivered request is over
run_closure ==
    /\ UiThreadFree
    /\ app.queue # <<>>
    /\ IF Head(app.queue).kind = "reply"
       THEN /\ app' = [app EXCEPT !.queue = Tail(@),
                                  !.model_reply = Head(app.queue).text,
                                  !.is_streaming = FALSE,
                                  !.req[Head(app.queue).task] = "none",
                                  !.dispatch_cfg[Head(app.queue).task] = None,
                                  !.latest_reply =
                                      IF app.latest = Some(Head(app.queue).task)
                                      THEN Some(Head(app.queue).text) ELSE @]
            /\ tasks' = [tasks EXCEPT ![Head(app.queue).task] = IdleTask]
       ELSE /\ app' = [app EXCEPT !.queue = Tail(@),
                                  !.llm_test_result = Head(app.queue).text,
                                  !.llm_is_testing = FALSE, !.test = "none"]
            /\ tasks' = tasks
    /\ UNCHANGED <<env, config, manager, ret, clip>>

\* ------------------------------------------------------- the clipboard
\* the user copies image i to the system clipboard, or something that is
\* not an image (0)
copy_image(i) ==
    /\ i # clip.clipboard
    /\ clip' = [clip EXCEPT !.clipboard = i]
    /\ UNCHANGED <<env, config, manager, ret, tasks, app>>

\* monitor thread, one round of the loop up to the test for a new image:
\* without an image the hash is reset; a new hash is stored, the old
\* temporary file is removed if it exists (remove_file may fail, removed
\* says whether it did not), last_saved_file is taken and set to the new
\* path. A failed Clipboard::new() leaves everything as it is.
monitor_check(removed) ==
    /\ clip.monitor = "sleep"
    /\ IF clip.clipboard = 0
       THEN clip' = [clip EXCEPT !.last_clipboard_hash = 0]
       ELSE IF clip.clipboard = clip.last_clipboard_hash
       THEN clip' = clip
       ELSE /\ clip.saves < MaxImages
            /\ clip' = [clip EXCEPT
                   !.last_clipboard_hash = clip.clipboard,
                   !.files = IF /\ IsSome(clip.last_saved_file)
                                /\ clip.files[Unwrap(clip.last_saved_file)]
                                       \notin {"missing", "deleted"}
                                /\ removed
                             THEN [@ EXCEPT ![Unwrap(clip.last_saved_file)] = "deleted"]
                             ELSE @,
                   !.saves = @ + 1,
                   !.file_path = Some(clip.saves + 1),
                   !.last_saved_file = Some(clip.saves + 1),
                   !.monitor = "publish"]
    /\ UNCHANGED <<env, config, manager, ret, tasks, app>>

\* monitor thread: handle_clone.lock(), *handle_path = Some(file_path)
monitor_publish ==
    /\ clip.monitor = "publish"
    /\ clip.path_lock = "free"
    /\ clip' = [clip EXCEPT !.clipboard_path = clip.file_path, !.monitor = "create"]
    /\ UNCHANGED <<env, config, manager, ret, tasks, app>>

\* monitor thread: File::create(&file_path), which makes an empty file or
\* fails
monitor_create(created) ==
    /\ clip.monitor = "create"
    /\ clip' = IF created
               THEN [clip EXCEPT !.files[Unwrap(clip.file_path)] = "empty",
                                 !.monitor = "write"]
               ELSE [clip EXCEPT !.monitor = "sleep", !.file_path = None]
    /\ UNCHANGED <<env, config, manager, ret, tasks, app>>

\* monitor thread: the encoder has written the first part of the file
monitor_write ==
    /\ clip.monitor = "write"
    /\ clip' = [clip EXCEPT !.files[Unwrap(clip.file_path)] = "partial",
                            !.monitor = "writing"]
    /\ UNCHANGED <<env, config, manager, ret, tasks, app>>

\* monitor thread: write_image, with its RGBA8 second try, has returned:
\* the file is complete or is left broken
monitor_written(saved) ==
    /\ clip.monitor = "writing"
    /\ clip' = [clip EXCEPT !.files[Unwrap(clip.file_path)] =
                                IF saved THEN "complete" ELSE "partial",
                            !.monitor = "sleep", !.file_path = None]
    /\ UNCHANGED <<env, config, manager, ret, tasks, app>>

\* the timer fires: path_monitor.lock(); without a path the guard is dropped
\* at once, with a path the callback goes on to load it, the guard alive
handle_clipboard_check ==
    /\ UiThreadFree
    /\ clip.path_lock = "free"
    /\ clip' = IF IsSome(clip.clipboard_path)
               THEN [clip EXCEPT !.path_lock = "timer", !.timer = "loading"]
               ELSE clip
    /\ UNCHANGED <<env, config, manager, ret, tasks, app>>

\* timer, Image::load_from_path(path), which succeeds on a complete PNG
\* file: Err ends the callback, the path stays; Ok shows the image, sets current_image_path under its own mutex
\* (only the UI thread takes that one) and drops the guard of the path
timer_load ==
    /\ clip.timer = "loading"
    /\ clip' = IF clip.files[Unwrap(clip.clipboard_path)] = "complete"
               THEN [clip EXCEPT !.current_image_path = clip.clipboard_path,
                                 !.path_lock = "free", !.timer = "relock"]
               ELSE [clip EXCEPT !.path_lock = "free", !.timer = "idle"]
    /\ UNCHANGED <<env, config, manager, ret, tasks, app>>

\* timer: path_monitor.lock() again, *path_lock = None
timer_reset ==
    /\ clip.timer = "relock"
    /\ clip.path_lock = "free"
    /\ clip' = [clip EXCEPT !.clipboard_path = None, !.timer = "idle"]
    /\ UNCHANGED <<env, config, manager, ret, tasks, app>>

\* on_clear_image: current_image_path is set to None
on_clear_image ==
    /\ UiThreadFree
    /\ clip' = [clip EXCEPT !.current_image_path = None]
    /\ UNCHANGED <<env, config, manager, ret, tasks, app>>

\* a step of the clipboard monitor thread, remove_file, File::create and
\* write_image succeeding or not as outcomes says
MonitorStep(outcomes) ==
    \/ \E removed \in outcomes : monitor_check(removed)
    \/ monitor_publish
    \/ \E created \in outcomes : monitor_create(created)
    \/ monitor_write
    \/ \E saved \in outcomes : monitor_written(saved)

\* ------------------------------------------------- LLMSettingsManager
\* the arguments the setters are called with
ModelArgs == {"gpt-4o", "gpt-4o-mini"}
ApiKeyArgs == {"", "k1"}
BaseUrlArgs == {"", "u1"}
TokenArgs == {"", "tok1"}

\* update_manager with the new config c
UpdateManager(c) ==
    /\ config' = Some(c)
    /\ manager' = from_config(c, env)

SetProvider(provider) ==
    /\ UpdateManager(set_provider(Unwrap(config), provider))
    /\ UNCHANGED <<env, ret, tasks, app, clip>>

SetModel(model) ==
    /\ UpdateManager(set_model(Unwrap(config), model))
    /\ UNCHANGED <<env, ret, tasks, app, clip>>

SetApiKey(api_key) ==
    /\ UpdateManager(set_api_key(Unwrap(config), api_key))
    /\ UNCHANGED <<env, ret, tasks, app, clip>>

SetBaseUrl(base_url) ==
    /\ UpdateManager(set_base_url(Unwrap(config), base_url))
    /\ UNCHANGED <<env, ret, tasks, app, clip>>

SetGithubToken(token) ==
    /\ UpdateManager(set_github_token(Unwrap(config), token))
    /\ UNCHANGED <<env, ret, tasks, app, clip>>

\* set_streaming stores the flag and does not rebuild the manager
SetStreaming(enable) ==
    /\ config' = Some(set_streaming(Unwrap(config), enable))
    /\ UNCHANGED <<env, manager, ret, tasks, app, clip>>

\* save_config: the config is written to the config file
SaveConfig ==
    /\ app' = [app EXCEPT !.config_file = config]
    /\ UNCHANGED <<env, config, manager, ret, tasks, clip>>

\* load_config_from_file: the file's config, the default without a file
load_config_from_file(file, e) ==
    IF IsSome(file) THEN Unwrap(file) ELSE LLMConfig_default(e)

\* reload_config: load_config_from_file, then update_manager
ReloadConfig ==
    /\ UpdateManager(load_config_from_file(app.config_file, env))
    /\ UNCHANGED <<env, ret, tasks, app, clip>>

\* --------------------------------------------------------- specifications
\* the steps of the call run by task t
\* the answers of the network to the call run by task t: a content delta
\* may be the empty string, the content of a non-streaming response may be
\* absent or empty
NetStep(t) ==
    \/ StreamOpenOk(t)
    \/ \E d \in NetErrors : StreamOpenErr(t, d)
    \/ \E d \in {<<>>, <<"a">>, <<"b">>} : StreamItemContent(t, d)
    \/ StreamItemNoContent(t)
    \/ \E d \in NetErrors : StreamItemErr(t, d)
    \/ StreamEnd(t)
    \/ \E d \in NetErrors : NonStreamErr(t, d)
    \/ \E body \in {None, Some(<<>>), Some(<<"a", "b">>)} : NonStreamOk(t, body)

CallStep(t) ==
    \/ SendMessage(t)
    \/ TestCurrentBackend(t)
    \/ NetStep(t)
    \/ DropReceiver(t)
    \/ Return(t)

\* Spec: managers built by from_config, calls made one after the other
Next ==
    \/ \E c \in LLMConfig : FromConfig(c)
    \/ CallStep("t1")

Spec == Init /\ [][Next]_vars

\* MgrSpec: the manager under new, add_backend, set_current_backend and
\* from_config, without calls
MgrNext ==
    \/ ManagerNew
    \/ \E b \in NewBackends(env) : AddBackend(b)
    \/ \E index \in 0..(MaxBackends + 1) : SetCurrentBackend(index)
    \/ \E c \in LLMConfig : FromConfig(c)

MgrSpec == Init /\ [][MgrNext]_vars

\* CleanSpec: as Spec, started in a process whose environment sets none of
\* the three variables
CleanInit == Init /\ env = [GITHUB_TOKEN |-> None, OPENAI_API_KEY |-> None,
                            OPENAI_BASE_URL |-> None]

CleanSpec == CleanInit /\ [][Next]_vars

\* the application started with the default settings in a clean environment
AppInit ==
    /\ env = [GITHUB_TOKEN |-> None, OPENAI_API_KEY |-> None, OPENAI_BASE_URL |-> None]
    /\ config = Some(LLMConfig_default(env))
    /\ manager = from_config(LLMConfig_default(env), env)
    /\ ret = None
    /\ tasks = [t \in Tasks |-> IdleTask]
    /\ app = AppIdle
    /\ clip = ClipIdle

\* the user edits the settings
SettingsStep ==
    \/ \E s \in Settings : on_llm_setting_changed(s)
    \/ ui_thread_resume

\* ReqSpec: the user sends requests, one at a time, and edits the settings
ReqNext ==
    \/ on_send_message(ReqTask, <<"q">>)
    \/ handle_llm_request_start(ReqTask)
    \/ NetStep(ReqTask)
    \/ handle_llm_request_finish(ReqTask)
    \/ on_stop_response
    \/ \E s \in Settings : on_llm_setting_changed(s)
    \/ run_closure

ReqSpec == AppInit /\ [][ReqNext]_vars

\* ReqFairSpec: ReqSpec where the spawned task is scheduled, every network
\* attempt answers and every stream ends, and the event loop runs the
\* closures posted to it
ReqFairSpec ==
    /\ ReqSpec
    /\ WF_vars(handle_llm_request_start(ReqTask))
    /\ WF_vars(NetStep(ReqTask))
    /\ WF_vars(handle_llm_request_finish(ReqTask))
    /\ WF_vars(run_closure)

\* SendSpec: the user sends requests, one at a time, with any prefill
\* text, and stops them
SendNext ==
    \/ \E text \in PrefillTexts : on_send_message(ReqTask, text)
    \/ handle_llm_request_start(ReqTask)
    \/ NetStep(ReqTask)
    \/ handle_llm_request_finish(ReqTask)
    \/ on_stop_response
    \/ run_closure

SendSpec == AppInit /\ [][SendNext]_vars

\* OverlapSpec: the user sends requests without waiting for the reply, two
\* of them at most in flight at a time
OverlapNext ==
    \/ \E t \in Tasks : on_send_message(t, <<"q">>)
    \/ \E t \in Tasks : handle_llm_request_start(t)
    \/ \E t \in Tasks : NetStep(t)
    \/ \E t \in Tasks : handle_llm_request_finish(t)
    \/ on_stop_response
    \/ run_closure

OverlapSpec == AppInit /\ [][OverlapNext]_vars

\* ClipSpec: the user copies images and clears the image shown while the
\* monitor thread and the timer run
ClipNext ==
    \/ \E i \in 0..2 : copy_image(i)
    \/ MonitorStep(BOOLEAN)
    \/ handle_clipboard_check
    \/ timer_load
    \/ timer_reset
    \/ on_clear_image

ClipSpec == AppInit /\ [][ClipNext]_vars

\* ClipFairSpec: ClipSpec where the monitor thread keeps running and the
\* timer keeps firing and its callback runs to its end
ClipFairSpec ==
    /\ ClipSpec
    /\ WF_vars(MonitorStep(BOOLEAN))
    /\ WF_vars(handle_clipboard_check \/ timer_load \/ timer_reset)

\* LockSpec: the four kinds of thread that take the mutexes, together: the
\* UI thread with its callbacks and the clipboard timer, the clipboard
\* monitor, the thread of a connection test and the task of a request up to
\* the call it makes. The file system does what it is asked, and the network
\* answers the test without a stream: the streaming request times out and
\* the non-streaming request answers or times out.
LockNext ==
    \/ \E i \in 1..2 : copy_image(i)
    \/ MonitorStep({TRUE})
    \/ handle_clipboard_check
    \/ timer_load
    \/ timer_reset
    \/ on_clear_image
    \/ on_llm_test_connection
    \/ test_thread_start
    \/ StreamOpenErr(TestTask, "timeout")
    \/ NonStreamErr(TestTask, "timeout")
    \/ NonStreamOk(TestTask, Some(<<"a", "b">>))
    \/ test_thread_finish
    \/ on_llm_setting_changed([field |-> "provider", value |-> "GPT"])
    \/ ui_thread_resume
    \/ on_send_message(ReqTask, <<"q">>)
    \/ handle_llm_request_start(ReqTask)
    \/ run_closure

LockSpec == AppInit /\ [][LockNext]_vars

\* LockFairSpec: LockSpec where every thread runs and the network answers
\* (weak fairness of the steps of the timer callback, of the test thread and
\* of the parked UI thread, which stay possible until taken), and where a
\* thread blocked in lock() gets a mutex that is free again and again
\* (strong fairness of the monitor, which the timer locks out for the time
\* of one callback in every second, and of the task of the request)
LockFairSpec ==
    /\ LockSpec
    /\ SF_vars(MonitorStep({TRUE}))
    /\ WF_vars(timer_load \/ timer_reset)
    /\ WF_vars(\/ test_thread_start
               \/ StreamOpenErr(TestTask, "timeout")
               \/ NonStreamErr(TestTask, "timeout")
               \/ NonStreamOk(TestTask, Some(<<"a", "b">>))
               \/ test_thread_finish)
    /\ WF_vars(ui_thread_resume)
    /\ SF_vars(handle_llm_request_start(ReqTask))

\* TestSpec: the user tests the connection, one test at a time, and edits
\* the settings
TestNext ==
    \/ on_llm_test_connection
    \/ test_thread_start
    \/ NetStep(TestTask)
    \/ test_thread_finish
    \/ SettingsStep
    \/ run_closure

TestSpec == AppInit /\ [][TestNext]_vars

\* SettingsSpec: an LLMSettingsManager made by new() without a config file,
\* under its setters, save_config and reload_config; the process may have
\* GITHUB_TOKEN set, the one variable the settings manager reads
SettingsInit ==
    /\ env \in {e \in Envs : e.OPENAI_API_KEY = None /\ e.OPENAI_BASE_URL = None}
    /\ config = Some(load_config_from_file(None, env))
    /\ manager = from_config(load_config_from_file(None, env), env)
    /\ ret = None
    /\ tasks = [t \in Tasks |-> IdleTask]
    /\ app = AppIdle
    /\ clip = ClipIdle

SettingsNext ==
    \/ \E provider \in Providers : SetProvider(provider)
    \/ \E model \in ModelArgs : SetModel(model)
    \/ \E api_key \in ApiKeyArgs : SetApiKey(api_key)
    \/ \E base_url \in BaseUrlArgs : SetBaseUrl(base_url)
    \/ \E token \in TokenArgs : SetGithubToken(token)
    \/ \E enable \in BOOLEAN : SetStreaming(enable)
    \/ SaveConfig
    \/ ReloadConfig

SettingsSpec == SettingsInit /\ [][SettingsNext]_vars

\* TypeSpec: from_str on the string of every QuestionType and on others
\* (the strings as_str returns, the strings from_str knows, the empty string
\* and a string that names no type)
TypeNext ==
    \E input \in {as_str(t) : t \in QuestionTypes}
                   \cup {"U+5B8C U+578B U+586B U+7A7A", "", "U+9898"} :
        FromStr(input)

TypeSpec == Init /\ [][TypeNext]_vars

\* BuildSpec: build_messages of either backend on every text and image
\* with or without an image file: one that decodes, one that is no image, one
\* that cannot be opened
BuildNext ==
    \E provider \in {"GPT", "GitHub"}, text \in {<<>>, <<"q">>},
       image_path \in Opt({"ok.png", "corrupt.png", "missing.png"}) :
        BuildMessages(provider, text, image_path)

BuildSpec == Init /\ [][BuildNext]_vars

\* ------------------------------------------------------ shared vocabulary
\* tasks running send_message / test_availability of a backend
SendTasks == {t \in Tasks : tasks[t].op = "send" /\ IsSome(tasks[t].backend)}
TestTasks == {t \in Tasks : tasks[t].op = "test" /\ IsSome(tasks[t].backend)}
Returned(t) == tasks[t].pc = "done"
Result(t) == Unwrap(tasks[t].result)
LastChunk(t) == tasks[t].chunks[Len(tasks[t].chunks)]
\* indices of the chunks of task t with is_complete = true
FinalChunks(t) == {i \in 1..Len(tasks[t].chunks) : tasks[t].chunks[i].is_complete}
AttemptsOfKind(t, kind) ==
    {i \in 1..Len(tasks[t].attempts) : tasks[t].attempts[i].kind = kind}
MissingCredential == Err(StreamError(MsgNoToken))

\* ---------------------------------------------------------------- claims
\* C1: for both backends, every send_message invocation sends exactly one
\* LLMResponse with is_complete = true, on every path, and it is the last
\* chunk sent: while the call runs no final chunk has been sent, and when it
\* has returned exactly one has, in last position.
C1_ExactlyOneFinalChunk ==
    \A t \in SendTasks :
        /\ ~Returned(t) => FinalChunks(t) = {}
        /\ Returned(t) => FinalChunks(t) = {Len(tasks[t].chunks)}
                          /\ Len(tasks[t].chunks) >= 1

\* C1 witness: a send that streamed a chunk, fell back and has returned
C1_Witness ==
    \E t \in SendTasks :
        /\ Returned(t)
        /\ Len(tasks[t].chunks) >= 2
        /\ Len(tasks[t].attempts) = 2

\* C2: for both backends, whenever the streaming attempt of send_message has
\* failed (it could not be opened, or an error item arrived in the stream), a
\* non-streaming attempt has been made before any failure is reported.
C2_StreamFailureFallsBack ==
    \A t \in SendTasks :
        IsSome(tasks[t].stream_err) => AttemptsOfKind(t, "non_stream") # {}

\* C3: when the stream delivered non-final chunks and then failed, the call
\* went on to the non-streaming fallback, and if that returned content C the
\* final chunk is {content: C, is_complete: true} and send_message returns Ok.
C3_FallbackRecoversBrokenStream ==
    \A t \in SendTasks :
        (/\ Returned(t)
         /\ IsSome(tasks[t].stream_err)
         /\ \E i \in 1..Len(tasks[t].chunks) : ~tasks[t].chunks[i].is_complete)
        => /\ AttemptsOfKind(t, "non_stream") # {}
           /\ (IsSome(tasks[t].response) /\ IsSome(Unwrap(tasks[t].response)))
                => /\ LastChunk(t) = LLMResponse(Unwrap(Unwrap(tasks[t].response)), TRUE)
                   /\ Result(t) = Ok(Unit)

\* the error of the failed non-streaming attempt of a returned call: the
\* transport error, or the error made for a response without content
NonStreamFailure(t) ==
    IF IsSome(tasks[t].non_stream_err) THEN tasks[t].non_stream_err
    ELSE IF IsSome(tasks[t].response) /\ ~Result(t).ok THEN Some(Result(t).err)
    ELSE None

\* C4: when the streaming attempt and the non-streaming fallback of
\* send_message both failed, exactly one final chunk was sent, its content is
\* an error message that contains the text of the non-streaming attempt's
\* error, and send_message returned Err.
C4_BothFailedFinalChunk ==
    \A t \in SendTasks :
        (Returned(t) /\ IsSome(tasks[t].stream_err) /\ IsSome(NonStreamFailure(t)))
        => /\ FinalChunks(t) = {Len(tasks[t].chunks)}
           /\ LastChunk(t).content[1] \in {"Error: ",
                "Error: Both streaming and non-streaming requests failed. Last error: "}
           /\ Contains(LastChunk(t).content, to_string(Unwrap(NonStreamFailure(t))))
           /\ ~Result(t).ok

\* C4 witness: the stream could not be opened with one transport error and
\* the fallback failed with another
C4_Witness ==
    \E t \in SendTasks :
        /\ Returned(t)
        /\ IsSome(tasks[t].stream_err) /\ IsSome(tasks[t].non_stream_err)
        /\ tasks[t].stream_err # tasks[t].non_stream_err

\* both attempts of a returned call failed with transport errors
BothAttemptsFailed(t) ==
    /\ Returned(t)
    /\ IsSome(tasks[t].stream_err)
    /\ IsSome(tasks[t].non_stream_err)

C6_NoCredentialNoAttempt ==
    \A t \in SendTasks \cup TestTasks :
        Unwrap(tasks[t].backend).api_key = None
        => /\ tasks[t].attempts = <<>>
           /\ Returned(t)
           /\ Result(t) = MissingCredential

\* C7: a send_message on the manager built by from_config from a config with
\* provider GitHub and github_token = None makes no network attempt and
\* returns the missing-credential error, whatever was done before in the
\* process.
C7_GitHubWithoutTokenFails ==
    \A t \in SendTasks :
        (/\ IsSome(tasks[t].cfg)
         /\ Unwrap(tasks[t].cfg).provider = "GitHub"
         /\ Unwrap(tasks[t].cfg).github_token = None)
        => /\ tasks[t].attempts = <<>>
           /\ Returned(t)
           /\ Result(t) = MissingCredential

\* C8: one send_message makes at most one streaming and at most one
\* non-streaming attempt, the streaming one first; a failed fallback ends the
\* call; a missing-credential failure comes with no attempt; a stream that
\* ended without content (protocol failure) is followed by no other attempt.
C8_AtMostOneAttemptEach ==
    \A t \in SendTasks :
        /\ AttemptsOfKind(t, "stream") \subseteq {1}
        /\ AttemptsOfKind(t, "non_stream") \subseteq {2}
        /\ IsSome(tasks[t].non_stream_err) => Returned(t)
        /\ (Returned(t) /\ Result(t) = MissingCredential) => tasks[t].attempts = <<>>
        /\ (/\ Returned(t)
            /\ ~Result(t).ok
            /\ Result(t).err.kind = "Stream"
            /\ Result(t) # MissingCredential
            /\ tasks[t].stream_err = None)
           => Len(tasks[t].attempts) = 1

\* C8 witness: a stream that was opened and ended without content
C8_Witness ==
    \E t \in SendTasks :
        /\ Returned(t)
        /\ Result(t) = Err(StreamError(MsgNoContentGpt))
        /\ tasks[t].items > 0
        /\ tasks[t].stream_err = None

\* C9: in every state reached by new, add_backend, set_current_backend and
\* from_config, current_backend is None or an index below backends.len(),
\* and it is None only when there is no backend, so that current_backend()
\* returns Some whenever a backend was added.
C9_CurrentIndexInRange ==
    /\ IsSome(manager.current_backend)
         => Unwrap(manager.current_backend) \in 0..(Len(manager.backends) - 1)
    /\ (manager.current_backend = None) <=> (manager.backends = <<>>)
    /\ manager.backends # <<>> => IsSome(current_backend(manager))

\* C9 witness: two backends added, the second one selected
C9_Witness ==
    /\ Len(manager.backends) >= 2
    /\ manager.current_backend = Some(1)
    /\ config = None

\* C10: set_current_backend(i) with i >= backends.len() returns Err and
\* changes neither current_backend nor the backend list; with
\* i < backends.len() it returns Ok and current_backend becomes i.
C10_SetCurrentBackend ==
    [][\A index \in 0..(MaxBackends + 1) :
          SetCurrentBackend(index)
          => IF index >= Len(manager.backends)
             THEN ~Unwrap(ret').ok /\ manager' = manager
             ELSE /\ Unwrap(ret').ok
                  /\ manager'.current_backend = Some(index)
                  /\ manager'.backends = manager.backends]_vars

\* C10 witness: a call with an index out of range returned Err on a manager
\* that has a backend selected
C10_Witness ==
    /\ IsSome(ret)
    /\ ~Unwrap(ret).ok
    /\ Len(Unwrap(ret).msg) = 3
    /\ Unwrap(ret).msg[2] >= Len(manager.backends)
    /\ IsSome(manager.current_backend)

\* C11: from_config never fails and, for every config, registers exactly two
\* backends, GPT at index 0 and GitHub at index 1, and selects the GitHub
\* backend when provider is "GitHub" and the GPT backend when provider is
\* "GPT" or any other string.
C11_FromConfigRegistersBoth ==
    IsSome(config)
    => /\ Len(manager.backends) = 2
       /\ manager.backends[1].provider = "GPT"
       /\ manager.backends[2].provider = "GitHub"
       /\ manager.current_backend =
            (IF Unwrap(config).provider = "GitHub" THEN Some(1) ELSE Some(0))

\* C11 witness: a manager built from a config with an unrecognized provider
C11_Witness ==
    /\ IsSome(config)
    /\ Unwrap(config).provider \notin {"GPT", "GitHub"}
    /\ IsSome(current_backend(manager))
    /\ Unwrap(current_backend(manager)).provider = "GPT"

\* C12: every Err returned by LLMManager.send_message comes with exactly one
\* final chunk on the sender, the no-backend path included.
C12_ErrComesWithFinalChunk ==
    \A t \in Tasks :
        (tasks[t].op = "send" /\ Returned(t) /\ ~Result(t).ok)
        => /\ Len(tasks[t].chunks) >= 1
           /\ FinalChunks(t) = {Len(tasks[t].chunks)}

\* C13: send_message and test_current_backend on a manager that holds no
\* backend return the no-backend error at once: no backend is invoked and no
\* network attempt is made.
C13_NoBackendNoAttempt ==
    \A t \in Tasks :
        (tasks[t].op # "none" /\ manager.backends = <<>>)
        => /\ Returned(t)
           /\ Result(t) = Err(StreamError(MsgNoBackend))
           /\ tasks[t].backend = None
           /\ tasks[t].attempts = <<>>

\* C13 witness: a connection test on the empty manager has returned
C13_Witness ==
    \E t \in Tasks :
        /\ tasks[t].op = "test"
        /\ manager.backends = <<>>
        /\ Returned(t)

\* number of characters of a string given as a sequence of pieces
RECURSIVE StrLen(_)
StrLen(s) == IF s = <<>> THEN 0 ELSE Len(Head(s)) + StrLen(Tail(s))

\* s is a prefix of r
IsPrefix(s, r) == Len(s) <= Len(r) /\ SubSeq(r, 1, Len(s)) = s

C19_AttemptsUseOwnCredentials ==
    \A t \in SendTasks \cup TestTasks :
        \A i \in 1..Len(tasks[t].attempts) :
            LET b == Unwrap(tasks[t].backend)
                seen == tasks[t].attempts[i].env
            IN  IF b.provider = "GPT"
                THEN seen.OPENAI_API_KEY = b.api_key /\ seen.OPENAI_BASE_URL = b.base_url
                ELSE seen.GITHUB_TOKEN = b.api_key

\* what the answers of the network make a returned send_message return
ExpectedResult(t) ==
    LET tk == tasks[t]
        b == Unwrap(tk.backend)
    IN  IF tk.attempts = <<>> THEN MissingCredential
        ELSE IF IsSome(tk.non_stream_err) THEN Err(Unwrap(tk.non_stream_err))
        ELSE IF IsSome(tk.response)
             THEN IF b.provider = "GitHub" \/ unwrap_or_default(Unwrap(tk.response)) # <<>>
                  THEN Ok(Unit) ELSE Err(StreamError(MsgNoContentGpt))
        ELSE IF IsSome(tk.stream_err) THEN Err(Unwrap(tk.stream_err))
        ELSE IF b.provider = "GitHub" \/ tk.acc # <<>>
             THEN Ok(Unit) ELSE Err(StreamError(MsgNoContentGpt))

\* C20: when the receiver of the chunk channel has been dropped, before or
\* during send_message, every send is discarded without effect on the call:
\* it does not panic, it can always take its next step, nothing more reaches
\* the channel, and it makes the attempts and returns the result that the
\* answers of the network determine, as with a live receiver.
C20_DroppedReceiverIsIgnored ==
    \A t \in SendTasks :
        ~tasks[t].rx_alive
        => /\ tasks[t].pc \in {"stream_open", "streaming", "non_stream", "done"}
           /\ ENABLED CallStep(t)
           /\ IsPrefix(tasks[t].received, tasks[t].chunks)
           /\ Returned(t) =>
                /\ Result(t) = ExpectedResult(t)
                /\ FinalChunks(t) = {Len(tasks[t].chunks)}
                /\ Len(tasks[t].attempts) =
                     (IF tasks[t].attempts = <<>> THEN 0
                      ELSE IF IsSome(tasks[t].response) \/ IsSome(tasks[t].non_stream_err)
                           THEN 2 ELSE 1)

\* C20 witness: the receiver was dropped after one chunk had reached it, the
\* call went on sending and has returned Ok
C20_Witness ==
    \E t \in SendTasks :
        /\ ~tasks[t].rx_alive
        /\ Returned(t)
        /\ Result(t).ok
        /\ Len(tasks[t].received) = 1
        /\ Len(tasks[t].chunks) >= 3

\* contents of the chunks the request's backend call has sent, in order
ProducedContents == [i \in 1..Len(tasks[ReqTask].chunks) |-> tasks[ReqTask].chunks[i].content]

\* texts of the model_reply updates waiting in the event loop, in order
RECURSIVE ReplyTexts(_)
ReplyTexts(q) ==
    IF q = <<>> THEN <<>>
    ELSE IF Head(q).kind = "reply" THEN <<Head(q).text>> \o ReplyTexts(Tail(q))
    ELSE ReplyTexts(Tail(q))

\* the network has not yet answered the call of task t
AwaitingNetwork(t) == tasks[t].pc \in {"stream_open", "streaming", "non_stream"}

\* C15: when handle_llm_request has finished, the updates it put into the UI
\* event loop are the chunks its backend call produced, every one of them
\* and in the order produced, the final chunk last.
C15_EveryChunkReachesUi ==
    app.req[ReqTask] = "finished" => ReplyTexts(app.queue) = ProducedContents

\* C16: the UI thread is never parked in a callback while the backend
\* network call it would have to wait for is pending.
C16_UiNeverWaitsForNetwork ==
    ~(app.ui_wait # None /\ \E t \in Tasks : AwaitingNetwork(t))

\* C17: the llm_settings mutex is never held while the call of its holder
\* waits for the network.
C17_LockNotHeldAcrossAwait ==
    LockHeld => ~AwaitingNetwork(TestTask)

\* C18: a dispatched send uses the settings that were in force when the UI
\* dispatched it: the configuration its manager is built from, and with it
\* the provider and credentials of its backend, are those of the dispatch.
C18_SnapshotAtDispatch ==
    app.req[ReqTask] \in {"running", "finished"}
    => /\ tasks[ReqTask].cfg = app.dispatch_cfg[ReqTask]
       /\ \A i \in 1..Len(tasks[ReqTask].attempts) :
             Unwrap(tasks[ReqTask].backend).provider
                 = Unwrap(current_backend(
                       from_config(Unwrap(app.dispatch_cfg[ReqTask]), env))).provider

\* the messages last built, with their inputs
Built == IsSome(ret) /\ Unwrap(ret).op = "build_messages"

\* the user messages among msgs
UserMessages(msgs) == {i \in 1..Len(msgs) : msgs[i].role = "user"}

\* C21: the messages build_messages returns hold exactly one user message,
\* with the text of the request; it carries a data URL if and only if an
\* image path was given and its conversion succeeded, and then the URL is
\* "data:image/png;base64," followed by the encoding. Without a path or
\* with a failed conversion the user message is text-only; build_messages
\* returns messages in every case, so the request proceeds.
C21_DataUrlIffImageEncoded ==
    Built =>
        LET b == Unwrap(ret)
            encoded == IsSome(b.image_path) /\ image_to_base64(Unwrap(b.image_path)).ok
        IN  /\ Cardinality(UserMessages(b.messages)) = 1
            /\ \A i \in UserMessages(b.messages) :
                  /\ b.messages[i].text = b.text
                  /\ IsSome(b.messages[i].image_url) <=> encoded
                  /\ encoded =>
                        Unwrap(b.messages[i].image_url)
                            = <<"data:image/png;base64,">>
                                  \o image_to_base64(Unwrap(b.image_path)).val
            /\ \A i \in 1..Len(b.messages) :
                  b.messages[i].role # "user" => b.messages[i].image_url = None

\* C21 witness: an image that cannot be decoded gave a text-only message
C21_Witness ==
    /\ Built
    /\ Unwrap(ret).image_path = Some("corrupt.png")
    /\ Unwrap(ret).text = <<"q">>
    /\ \E i \in UserMessages(Unwrap(ret).messages) :
          Unwrap(ret).messages[i] = ChatMessage_user(<<"q">>)

\* the streaming attempt of the returned call of task t ran to the end of
\* its stream
StreamCompleted(t) ==
    /\ Returned(t)
    /\ tasks[t].attempts # <<>>
    /\ tasks[t].stream_err = None

\* the non-streaming attempt of the returned call of task t got a response
\* without content: no choices, no message, no content or empty content
EmptyResponse(t) ==
    /\ Returned(t)
    /\ IsSome(tasks[t].response)
    /\ unwrap_or_default(Unwrap(tasks[t].response)) = <<>>

\* C22: test_availability of either backend returns Ok(reply) only with a
\* non-empty reply; a stream that ends without content and a non-streaming
\* response without content make it return Err.
C22_TestReplyNeverEmpty ==
    \A t \in TestTasks :
        Returned(t) =>
            /\ Result(t).ok => Result(t).val # <<>> /\ StrLen(Result(t).val) > 0
            /\ (StreamCompleted(t) /\ tasks[t].acc = <<>>) => ~Result(t).ok
            /\ EmptyResponse(t) => ~Result(t).ok

\* C22 witness: the fallback of a GitHub test got a response without content
\* and the test returned the no-content error
C22_Witness ==
    \E t \in TestTasks :
        /\ EmptyResponse(t)
        /\ Unwrap(tasks[t].backend).provider = "GitHub"
        /\ Result(t) = Err(StreamError(MsgNoContentGitHub))

\* C23: test_availability falls back like send_message is meant to: after
\* any streaming error, an error item in the middle of the stream included,
\* it has made one non-streaming attempt, and it returns the reply of that
\* attempt when it has one.
C23_TestFallsBackOnAnyStreamError ==
    \A t \in TestTasks :
        (Returned(t) /\ IsSome(tasks[t].stream_err))
        => /\ Cardinality(AttemptsOfKind(t, "non_stream")) = 1
           /\ (IsSome(tasks[t].response) /\ ~EmptyResponse(t))
                => Result(t) = Ok(Unwrap(Unwrap(tasks[t].response)))

\* C26: send_message reports success only with real content: when it has
\* returned Ok its final chunk is not empty, and a stream that completed
\* without content or a non-streaming response without content made it
\* return Err after a final chunk with an error text, in both backends.
C26_SendOkOnlyWithContent ==
    \A t \in SendTasks :
        Returned(t) =>
            /\ Result(t).ok => LastChunk(t).content # <<>>
            /\ ((StreamCompleted(t) /\ tasks[t].acc = <<>>) \/ EmptyResponse(t))
                 => /\ ~Result(t).ok
                    /\ LastChunk(t).is_complete
                    /\ Contains(LastChunk(t).content, <<"Error: ">>)

\* the concatenation of the first k strings of seq
RECURSIVE ConcatFirst(_, _)
ConcatFirst(seq, k) == IF k = 0 THEN <<>> ELSE ConcatFirst(seq, k - 1) \o seq[k]

\* indices of the non-final chunks of task t
NonFinalChunks(t) == {i \in 1..Len(tasks[t].chunks) : ~tasks[t].chunks[i].is_complete}

\* C27: during the streaming attempt of send_message there is one non-final
\* chunk per content delta received (items without content add none), the
\* k-th one is the k-th chunk sent and its content is the concatenation of
\* the first k deltas; when the stream has completed and send_message
\* returned Ok after at least one delta, the final chunk's content equals
\* the last non-final chunk's content.
C27_ChunksAreCumulative ==
    \A t \in SendTasks :
        /\ NonFinalChunks(t) = 1..Len(tasks[t].deltas)
        /\ \A k \in NonFinalChunks(t) :
              tasks[t].chunks[k].content = ConcatFirst(tasks[t].deltas, k)
        /\ (StreamCompleted(t) /\ Result(t).ok /\ tasks[t].deltas # <<>>)
             => LastChunk(t).content = tasks[t].chunks[Len(tasks[t].deltas)].content

\* C27 witness: a stream with an item without content between two deltas
\* completed; two non-final chunks and the final chunk were sent
C27_Witness ==
    \E t \in SendTasks :
        /\ StreamCompleted(t)
        /\ Result(t).ok
        /\ Len(tasks[t].deltas) = 2
        /\ tasks[t].items >= 2
        /\ tasks[t].deltas[2] # <<>>
        /\ Len(tasks[t].chunks) = 3

\* C28: every send_message and test_availability that reaches the network
\* makes a streaming request first, and makes a non-streaming request only
\* as the next attempt after a streaming attempt that failed, whether
\* enable_streaming of the configuration is true or false.
C28_StreamingAlwaysFirst ==
    \A t \in SendTasks \cup TestTasks :
        \A i \in 1..Len(tasks[t].attempts) :
            /\ i = 1 => tasks[t].attempts[i].kind = "stream"
            /\ tasks[t].attempts[i].kind = "non_stream"
                 => /\ i > 1
                    /\ tasks[t].attempts[i - 1].kind = "stream"
                    /\ IsSome(tasks[t].stream_err)

\* C28 witness: the configuration has enable_streaming off and the call made
\* a streaming attempt, then a non-streaming one
C28_Witness ==
    \E t \in SendTasks :
        /\ IsSome(tasks[t].cfg)
        /\ ~Unwrap(tasks[t].cfg).enable_streaming
        /\ Len(tasks[t].attempts) = 2
        /\ tasks[t].attempts[1].kind = "stream"
        /\ tasks[t].attempts[2].kind = "non_stream"

\* the fields of LLMConfig
ConfigFields ==
    {"provider", "model", "api_key", "base_url", "github_token", "enable_streaming"}

\* the step changed at most field f of the config, to value v
OnlyFieldSet(f, v) ==
    /\ Unwrap(config')[f] = v
    /\ \A g \in ConfigFields \ {f} : Unwrap(config')[g] = Unwrap(config)[g]

\* Option<String> stored for a string argument: None for the empty string
NoneIfEmpty(x) == IF x = "" THEN None ELSE Some(x)

\* C29: each setter of LLMSettingsManager sets its own config field to its
\* argument and leaves the five other fields as they were; set_api_key,
\* set_base_url and set_github_token store None for the empty string and
\* Some of the argument otherwise.
C29_SettersChangeOwnFieldOnly ==
    [][/\ \A provider \in Providers :
             SetProvider(provider) => OnlyFieldSet("provider", provider)
       /\ \A model \in ModelArgs :
             SetModel(model) => OnlyFieldSet("model", model)
       /\ \A api_key \in ApiKeyArgs :
             SetApiKey(api_key) => OnlyFieldSet("api_key", NoneIfEmpty(api_key))
       /\ \A base_url \in BaseUrlArgs :
             SetBaseUrl(base_url) => OnlyFieldSet("base_url", NoneIfEmpty(base_url))
       /\ \A token \in TokenArgs :
             SetGithubToken(token) => OnlyFieldSet("github_token", NoneIfEmpty(token))
       /\ \A enable \in BOOLEAN :
             SetStreaming(enable) => OnlyFieldSet("enable_streaming", enable)]_vars

\* C29 witness: a config that differs from the default in every field the
\* setters reach, the key and the token set and the base URL cleared again
C29_Witness ==
    /\ IsSome(config)
    /\ app.config_file = None
    /\ Unwrap(config).provider = "GitHub"
    /\ Unwrap(config).model = "gpt-4o-mini"
    /\ Unwrap(config).api_key = Some("k1")
    /\ Unwrap(config).github_token # LLMConfig_default(env).github_token
    /\ Unwrap(config).base_url = None
    /\ ~Unwrap(config).enable_streaming

\* C30: the manager held by the settings manager selects the backend that
\* config.provider names (GPT when it names none), and the model and the
\* credential of that backend are the model and the api_key (GPT) or
\* github_token (GitHub) of the config, no credential when the config has
\* none.
C30_ManagerFollowsConfig ==
    IsSome(config) =>
        LET c == Unwrap(config)
            b == Unwrap(current_backend(manager))
        IN  /\ IsSome(current_backend(manager))
            /\ b.provider = (IF c.provider = "GitHub" THEN "GitHub" ELSE "GPT")
            /\ b.model = c.model
            /\ b.api_key = (IF b.provider = "GPT" THEN c.api_key ELSE c.github_token)

\* the step is the event loop running the closure of the request
ReplyWritten == app.req[ReqTask] = "finished" /\ app'.req[ReqTask] = "none"

\* C24: every dispatched request reaches its end: the call of the spawned
\* task returns, having sent one final chunk as its last chunk; the task then
\* posts its closure; and the event loop runs it, which writes the content or
\* "Error: {e}" of that call to model_reply and clears is_streaming.
C24_RequestEventuallyCompletes ==
    /\ (app.req[ReqTask] = "spawned")
         ~> (/\ app.req[ReqTask] = "running"
             /\ Returned(ReqTask)
             /\ FinalChunks(ReqTask) = {Len(tasks[ReqTask].chunks)})
    /\ (app.req[ReqTask] = "running") ~> (app.req[ReqTask] = "finished")
    /\ (app.req[ReqTask] = "finished") ~> (app.req[ReqTask] = "none" /\ ~app.is_streaming)
    /\ [][ReplyWritten => /\ app'.model_reply = reply_text(tasks[ReqTask])
                          /\ ~app'.is_streaming]_vars

\* C24 witness: a request whose two attempts failed has completed, the error
\* is in model_reply and is_streaming is off
C24_Witness ==
    /\ app.req[ReqTask] = "none"
    /\ ~app.stop_signal
    /\ ~app.is_streaming
    /\ Contains(app.model_reply, <<"Error: ", "timeout">>)

\* C25: stop_response sets the stop signal and clears is_streaming and
\* nothing else: the request and its backend call stay as they are; a
\* stopped request in flight still runs to its end, and the closure of the
\* stopped request still writes the result of the call to model_reply.
C25_StopDoesNotAbort ==
    /\ [][on_stop_response =>
             /\ app'.stop_signal
             /\ ~app'.is_streaming
             /\ app'.req[ReqTask] = app.req[ReqTask]
             /\ app'.queue = app.queue
             /\ tasks' = tasks]_vars
    /\ (app.stop_signal /\ app.req[ReqTask] \in {"spawned", "running"}) ~> (app.req[ReqTask] = "finished")
    /\ (app.stop_signal /\ app.req[ReqTask] = "finished") ~> (app.req[ReqTask] = "none")
    /\ [][(app.stop_signal /\ ReplyWritten)
             => app'.model_reply = reply_text(tasks[ReqTask])]_vars

\* C25 witness: a request stopped in flight has completed and its streamed
\* content is in model_reply
C25_Witness ==
    /\ app.stop_signal
    /\ app.req[ReqTask] = "none"
    /\ ~app.is_streaming
    /\ app.model_reply = <<"a", "b">>

\* C31: for every QuestionType t, from_str applied to t.as_str() returns
\* Ok(t), so the string of a question type always parses and the expect() of
\* the send_message and copy callbacks does not panic.
C31_FromStrInvertsAsStr ==
    \A t \in QuestionTypes :
        (/\ IsSome(ret)
         /\ Unwrap(ret).op = "from_str"
         /\ Unwrap(ret).arg = as_str(t))
        => Unwrap(ret).result = Ok(t)

\* the step is a send_message event with a blank prefill text
BlankSend == \E text \in PrefillTexts : trim(text) = <<>> /\ on_send_message(ReqTask, text)

\* the step dispatches a request: its task goes from idle to dispatched
Dispatches(t) == app.req[t] = "none" /\ app'.req[t] = "spawned"

\* C38: a send_message event whose text is empty or whitespace only
\* dispatches no backend call and leaves is_streaming and model_reply as
\* they are; a request goes from idle to dispatched only by a send_message
\* event with a non-blank text.
C38_BlankSendDispatchesNothing ==
    /\ [][BlankSend => /\ app'.is_streaming = app.is_streaming
                       /\ app'.model_reply = app.model_reply
                       /\ app'.req = app.req
                       /\ app'.queue = app.queue
                       /\ tasks' = tasks]_vars
    /\ [][Dispatches(ReqTask)
            => \E text \in PrefillTexts :
                  trim(text) # <<>> /\ on_send_message(ReqTask, text)]_vars

\* C38 witness: a request in flight was stopped and a blank send_message
\* came after the stop: the stop signal is reset, is_streaming is still off
\* and the request still runs
C38_Witness ==
    /\ app.req[ReqTask] = "running"
    /\ ~app.is_streaming
    /\ ~app.stop_signal

\* no request is waiting for its reply
AllDelivered == \A t \in Tasks : app.req[t] = "none"

\* C36: when two requests were dispatched one after the other, the second
\* while the first was in flight, and both have completed, model_reply shows
\* the result of the request dispatched last.
C36_LatestRequestWins ==
    (AllDelivered /\ IsSome(app.latest_reply))
    => app.model_reply = Unwrap(app.latest_reply)

\* request t is dispatched and its result has not reached the UI
Undelivered(t) == app.req[t] # "none"

\* the step is the event loop running the closure of request t
Delivers(t) == app.req[t] = "finished" /\ app'.req[t] = "none"

\* C37: is_streaming is true from the dispatch of a request on for as long
\* as its result has not reached the UI and stop_response has not been
\* invoked: the dispatch sets it, and while the request is undelivered it
\* goes off only by the completion of that request or by a stop.
C37_StreamingWhileUndelivered ==
    [][\A t \in Tasks :
          /\ Dispatches(t) => app'.is_streaming
          /\ (Undelivered(t) /\ app.is_streaming /\ ~app'.is_streaming)
             => (on_stop_response \/ Delivers(t))]_vars

\* the step is the timer's reset of clipboard_path after it consumed a path
TimerResets == clip.timer = "relock" /\ clip'.timer = "idle"

\* C32: every path the monitor publishes in clipboard_path is in the end
\* consumed by the timer, which makes it current_image_path, or superseded
\* by a newer path; and the timer's reset to None never erases a path
\* published after the one it consumed.
C32_PublishedPathNotLost ==
    /\ \A p \in Paths :
          (clip.clipboard_path = Some(p))
            ~> (\/ clip.current_image_path = Some(p)
                \/ \E q \in Paths : q > p /\ clip.clipboard_path = Some(q))
    /\ [][TimerResets => clip.clipboard_path = clip.current_image_path]_vars

\* C33: whenever current_image_path is Some(p), the file p has not been
\* deleted by the clipboard monitor.
C33_CurrentImageFileExists ==
    IsSome(clip.current_image_path)
    => clip.files[Unwrap(clip.current_image_path)] # "deleted"

\* the step is the monitor storing its path in clipboard_path
Publishes == clip.monitor = "publish" /\ clip'.monitor = "create"

\* the step is the timer finding a path in clipboard_path
TimerReads == clip.timer = "idle" /\ clip'.timer = "loading"

\* C34: the monitor makes a path visible in clipboard_path only when the
\* PNG file is completely written, and the timer never reads a published
\* path whose file is missing, empty or partly written.
C34_PublishedFileIsComplete ==
    /\ [][Publishes => clip.files[Unwrap(clip'.clipboard_path)] = "complete"]_vars
    /\ [][TimerReads => clip.files[Unwrap(clip.clipboard_path)] = "complete"]_vars

\* the UI thread is parked in lock() of llm_settings
UiWaits == app.ui_wait # None

\* the monitor thread is at lock() of clipboard_path
MonitorWants == clip.monitor = "publish"

\* the timer callback is at its second lock() of clipboard_path
TimerWants == clip.timer = "relock"

\* the thread of the connection test is at lock() of llm_settings
TestWants == app.test = "spawned"

\* the task of the request is at lock() of llm_settings
RequestWants == app.req[ReqTask] = "spawned"

\* C35: the UI thread, the clipboard monitor, the test thread and the task
\* of a request never deadlock on the mutexes of clipboard_path,
\* current_image_path, last_saved_file and llm_settings: the UI thread never
\* waits for a mutex while it holds clipboard_path, the holder of
\* llm_settings waits only for the network, and, the network answering,
\* every thread that is at a lock() gets the mutex: no thread stays at its
\* lock() for ever.
C35_NoDeadlockOnMutexes ==
    /\ [](~(UiWaits /\ clip.path_lock = "timer"))
    /\ [](LockHeld => app.test = "holding")
    /\ []<>(~UiWaits)
    /\ []<>(~MonitorWants)
    /\ []<>(~TimerWants)
    /\ []<>(~TestWants)
    /\ []<>(~RequestWants)

\* C35 witness: two threads are blocked at once: the monitor at
\* clipboard_path, which the timer callback holds, and the task of the
\* request at llm_settings, which the test thread holds across its call
C35_Witness ==
    /\ MonitorWants
    /\ clip.path_lock = "timer"
    /\ RequestWants
    /\ LockHeld
    /\ tasks[TestTask].pc = "non_stream"

====
